---- MODULE Spec2Model ----
(***************************************************************************)
(* Model of drf-async-view: the asynchronous authorization pipeline of     *)
(* AsyncRequest.authenticate (drfasyncview/requests.py) and of             *)
(* AsyncAPIView.check_permissions, check_throttles, dispatch and           *)
(* handle_exception (drfasyncview/views.py).                               *)
(*                                                                         *)
(* A coroutine runs atomically between two suspension points.  The only    *)
(* suspension point of authenticate() and of _check_async_permissions()    *)
(* is the await of asyncio.gather(..., return_exceptions=True): the        *)
(* checks of the batch are all started by the gather call, they complete   *)
(* one at a time in an order chosen by the scheduler, and the awaiting     *)
(* coroutine resumes once every one of them has completed.                 *)
(* _check_async_throttles awaits one throttle at a time, and dispatch      *)
(* awaits the handler.                                                     *)
(***************************************************************************)
EXTENDS Integers, Sequences, FiniteSets, TLC

VARIABLES
    authenticators,   \* request.authenticators: the ordered authenticator list
    permissions,      \* view.get_permissions(): the ordered permission list
    pc,               \* position of the running coroutine
    user,             \* request.user
    auth,             \* request.auth
    authenticator_,   \* request._authenticator
    authTask,         \* per authenticator: "idle", "started" or "done"
    authResults,      \* per authenticator: what its task returned or raised
                      \* (None until the task completes)
    authFinished,     \* authenticators in the order their tasks completed
    permTask,         \* per permission: "idle", "started" or "done"
    permResults,      \* per permission: what has_permission returned or raised
                      \* (None until it was evaluated)
    permFinished,     \* asynchronous permissions in completion order
    permCalls,        \* per permission: how many times has_permission was called
    raised,           \* the exception the stage raised, None while none
    throttles,        \* view.get_throttles(): the ordered throttle list
    throttleTask,     \* per throttle: "idle", "started" or "done"
    throttleCalls,    \* per throttle: how many times allow_request was called
    throttleWaits,    \* per throttle: how many times wait() was called
    throttleDurations,\* throttle_durations: the waits collected so far
    stages,           \* the stages of initial() that returned, in order
    method,           \* request.method, "" until dispatch reads it
    methodNames,      \* view.http_method_names, {} until dispatch reads it
    handlerKind,      \* the view's attribute of the method's name: "missing",
                      \* "sync" or "async"; "" until dispatch reads it
    handlerTask,      \* the handler coroutine: "idle", "started" or "done"
    handled,          \* the exception handle_exception received with its
                      \* status_code and auth_header, None when none
    response,         \* the response the handler or the translator produced
    finalizeCalls,    \* how many times finalize_response was called
    returned,         \* what dispatch returned, None until it returns
    reraised          \* the exception that left dispatch, None when none

vars == <<authenticators, permissions, pc, user, auth, authenticator_,
          authTask, authResults, authFinished,
          permTask, permResults, permFinished, permCalls, raised,
          throttles, throttleTask, throttleCalls, throttleWaits, throttleDurations,
          stages, method, methodNames, handlerKind, handlerTask, handled,
          response, finalizeCalls, returned, reraised>>

authVars == <<authenticators, user, auth, authenticator_,
              authTask, authResults, authFinished>>

permVars == <<permissions, permTask, permResults, permFinished, permCalls>>

throttleVars ==
    <<throttles, throttleTask, throttleCalls, throttleWaits, throttleDurations>>

dispatchVars == <<stages, method, methodNames, handlerKind, handlerTask,
                  handled, response, finalizeCalls, returned, reraised>>

----------------------------------------------------------------------------
(* Bounds *)

MaxAuthenticators == 3

MaxPermissions == 3

MaxThrottles == 3

\* wait() answers None or a whole number of seconds up to MaxWait
MaxWait == 2

\* authenticators, permissions and throttles of a dispatched view, together
MaxDispatchChecks == 3

----------------------------------------------------------------------------
(* Values *)

None == <<>>

\* what authenticator i does when invoked
AuthOutcomes == {"none", "pair", "AuthenticationFailed", "NotAuthenticated", "Exception"}

Authenticator == [isAsync : BOOLEAN, outcome : AuthOutcomes]

UserOf(i) == <<"user", i>>

TokenOf(i) == <<"token", i>>

\* variant: every authenticate is taken for a coroutine function
IsCoroutineAuthenticatorAlways(a) == TRUE

\* asyncio.iscoroutinefunction(authenticator.authenticate)
IsCoroutineAuthenticator(a) == a.isAsync

\* the value authenticator.authenticate(request) returns, or the exception
\* it raises (gather(return_exceptions=True) hands both back as results)
AuthResultOf(a, i) ==
    CASE a.outcome = "none" -> None
      [] a.outcome = "pair" -> <<"pair", UserOf(i), TokenOf(i)>>
      [] OTHER -> <<a.outcome, i>>

\* isinstance(result, exceptions.APIException)
IsAPIException(r) ==
    /\ r # None
    /\ r[1] \in {"AuthenticationFailed", "NotAuthenticated", "PermissionDenied",
                 "Throttled", "MethodNotAllowed"}

\* isinstance(result, Exception)
IsException(r) ==
    /\ r # None
    /\ r[1] \in {"AuthenticationFailed", "NotAuthenticated", "PermissionDenied",
                 "Throttled", "MethodNotAllowed", "Exception", "TypeError"}

\* what permission i answers when asked
PermOutcomes == {"grant", "deny", "raise"}

\* hasMeta: whether the permission object has the attributes message and code
Permission == [isAsync : BOOLEAN, outcome : PermOutcomes, hasMeta : BOOLEAN]

\* asyncio.iscoroutinefunction(permission.has_permission)
IsCoroutinePermission(p) == p.isAsync

\* the value permission.has_permission(request, view) returns, or the
\* exception it raises
PermResultOf(p, i) ==
    CASE p.outcome = "grant" -> <<"True">>
      [] p.outcome = "deny" -> <<"False">>
      [] OTHER -> <<"Exception", i>>

\* not result
IsFalsy(r) == r \in {None, <<"False">>}

\* getattr(permission, "message", None)
MessageOf(p, i) == IF p.hasMeta THEN <<"message", i>> ELSE None

\* getattr(permission, "code", None)
CodeOf(p, i) == IF p.hasMeta THEN <<"code", i>> ELSE None

\* the exception self.permission_denied(request, message=..., code=...) raises
permission_denied(message, code) == <<"PermissionDenied", message, code>>

\* a wait duration of n seconds (None is the absent duration)
Duration(n) == <<n>>

WaitValues == {None} \cup {Duration(n) : n \in 0..MaxWait}

\* what throttle i does when asked: allow_request returns True, returns
\* False, or raises; "wait_raises" is a throttle whose allow_request returns
\* False and whose wait() raises
ThrottleOutcomes == {"allow", "deny", "raise", "wait_raises"}

\* wait: what throttle.wait() returns; it only matters for a throttle that
\* denies, so the others are given None
Throttle ==
    {t \in [isAsync : BOOLEAN, outcome : ThrottleOutcomes, wait : WaitValues] :
        t.outcome # "deny" => t.wait = None}

\* asyncio.iscoroutinefunction(throttle.allow_request)
IsCoroutineThrottle(t) == t.isAsync

\* the value throttle.allow_request(request, view) returns, or the
\* exception it raises
ThrottleResultOf(t, i) ==
    CASE t.outcome = "allow" -> <<"True">>
      [] t.outcome \in {"deny", "wait_raises"} -> <<"False">>
      [] OTHER -> <<"Exception", i>>

\* variant: the wait is queried whatever allow_request returned
NotAllowedWhateverReturned(r) == ~IsException(r)

\* if not throttle.allow_request(request, self): the throttle answered, and
\* its answer is falsy
NotAllowed(r) == ~IsException(r) /\ IsFalsy(r)

\* throttle.wait() raises
WaitRaises(t) == t.outcome = "wait_raises"

\* the exception self.throttled(request, duration) raises
throttled(duration) == <<"Throttled", duration>>

\* request.user after Request._not_authenticated()
UnauthenticatedUser == <<"AnonymousUser">>

AuthTypeError == <<"TypeError", "'authenticate()' should be async function">>

\* sequences over S of length at most n
SeqUpTo(S, n) == UNION {[1..k -> S] : k \in 0..n}

\* the positions 1..n of a list, in order
IndexSeq(n) == [i \in 1..n |-> i]

----------------------------------------------------------------------------
(* AsyncRequest.authenticate *)

\* variant: only the first authenticator is inspected
HasSyncAuthenticatorFirstOnly(auths) ==
    Len(auths) > 0 /\ ~auths[1].isAsync

\* for authenticator in self.authenticators:
\*     if not asyncio.iscoroutinefunction(authenticator.authenticate): raise
HasSyncAuthenticator(auths) ==
    \E i \in 1..Len(auths) : ~IsCoroutineAuthenticator(auths[i])

\* variant: the awaiter resumes as soon as one task has completed
GatherFirstCompleted(task) ==
    (DOMAIN task = {}) \/ (\E i \in DOMAIN task : task[i] = "done")

\* asyncio.gather(*aws, return_exceptions=True) resumes its awaiter when
\* every task of the batch has completed
GatherSettled(task) == \A i \in DOMAIN task : task[i] = "done"

\* variant: the results come in the order the tasks completed
GatherResultsInCompletionOrder(aws, results, finished) ==
    [k \in 1..Len(finished) |-> results[finished[k]]]

\* the list gather returns: one result per awaitable, in the order the
\* awaitables aws were passed, whatever order they completed in
GatherResults(aws, results, finished) == [k \in 1..Len(aws) |-> results[aws[k]]]

\* variant: ending the scan without a result counts as a failure
ScanAuthenticationResultsAnonymousFails(results, idx) ==
    LET hits == {i \in idx..Len(results) : results[i] # None}
        i == CHOOSE m \in hits : \A n \in hits : m <= n
    IN IF hits = {}
       THEN [kind |-> "api_exception", idx |-> 0, exc |-> <<"NotAuthenticated", 0>>]
       ELSE IF IsAPIException(results[i])
       THEN [kind |-> "api_exception", idx |-> i, exc |-> results[i]]
       ELSE IF IsException(results[i])
       THEN [kind |-> "exception", idx |-> i, exc |-> results[i]]
       ELSE [kind |-> "authenticated", idx |-> i, exc |-> None]

\* variant: a returned pair is preferred to an exception at a lower index
ScanAuthenticationResultsSuccessFirst(results, idx) ==
    LET pairs == {i \in idx..Len(results) :
                     results[i] # None /\ ~IsException(results[i])}
        excs == {i \in idx..Len(results) : IsException(results[i])}
        Min(S) == CHOOSE i \in S : \A j \in S : i <= j
    IN IF pairs # {} THEN [kind |-> "authenticated", idx |-> Min(pairs), exc |-> None]
       ELSE IF excs # {}
       THEN [kind |-> IF IsAPIException(results[Min(excs)])
                      THEN "api_exception" ELSE "exception",
             idx |-> Min(excs), exc |-> results[Min(excs)]]
       ELSE [kind |-> "anonymous", idx |-> 0, exc |-> None]

\* the scan of authentication_results: the first index whose result is an
\* exception or a non-None value decides; exc is the exception to raise
RECURSIVE ScanAuthenticationResults(_, _)
ScanAuthenticationResults(results, idx) ==
    IF idx > Len(results)
    THEN [kind |-> "anonymous", idx |-> 0, exc |-> None]
    ELSE IF IsAPIException(results[idx])
    THEN [kind |-> "api_exception", idx |-> idx, exc |-> results[idx]]
    ELSE IF IsException(results[idx])
    THEN [kind |-> "exception", idx |-> idx, exc |-> results[idx]]
    ELSE IF results[idx] # None
    THEN [kind |-> "authenticated", idx |-> idx, exc |-> None]
    ELSE ScanAuthenticationResults(results, idx + 1)

\* variant: the fields keep what an earlier call left
ResetIdentityKeeping(value) == value

\* self._authenticator, self.user, self.auth = None, None, None: the value
\* each of the three fields gets
ResetIdentity(value) == None

\* authenticate() up to its await: reset, reject synchronous authenticators,
\* hand every authenticator's coroutine to gather
AuthenticateBegin ==
    /\ pc = "authenticate"
    /\ authenticator_' = ResetIdentity(authenticator_)
    /\ user' = ResetIdentity(user)
    /\ auth' = ResetIdentity(auth)
    /\ IF HasSyncAuthenticator(authenticators)
       THEN /\ raised' = AuthTypeError
            /\ pc' = "authenticate_raised"
            /\ UNCHANGED authTask
       ELSE /\ authTask' = [i \in DOMAIN authTask |-> "started"]
            /\ raised' = None
            /\ pc' = "authenticate_gather"
    /\ UNCHANGED <<authenticators, authResults, authFinished, permissions, permVars,
                   throttleVars, dispatchVars>>

\* one authenticator's task runs to completion
AuthenticatorComplete(i) ==
    /\ pc = "authenticate_gather"
    /\ authTask[i] = "started"
    /\ authTask' = [authTask EXCEPT ![i] = "done"]
    /\ authResults' = [authResults EXCEPT ![i] = AuthResultOf(authenticators[i], i)]
    /\ authFinished' = Append(authFinished, i)
    /\ UNCHANGED <<authenticators, user, auth, authenticator_, pc, raised,
                   permissions, permVars,
                   throttleVars, dispatchVars>>

\* authenticate() from the return of gather to its end
AuthenticateResume ==
    /\ pc = "authenticate_gather"
    /\ GatherSettled(authTask)
    /\ LET results == GatherResults(IndexSeq(Len(authenticators)),
                                    authResults, authFinished)
           d == ScanAuthenticationResults(results, 1)
       IN CASE d.kind = "api_exception" ->
                 \* self._not_authenticated(); raise
                 /\ authenticator_' = None
                 /\ user' = UnauthenticatedUser
                 /\ auth' = None
                 /\ raised' = d.exc
                 /\ pc' = "authenticate_raised"
            [] d.kind = "exception" ->
                 /\ raised' = d.exc
                 /\ pc' = "authenticate_raised"
                 /\ UNCHANGED <<user, auth, authenticator_>>
            [] d.kind = "authenticated" ->
                 /\ authenticator_' = <<"authenticator", d.idx>>
                 /\ user' = results[d.idx][2]
                 /\ auth' = results[d.idx][3]
                 /\ pc' = "authenticate_done"
                 /\ UNCHANGED raised
            [] OTHER ->
                 /\ pc' = "authenticate_done"
                 /\ UNCHANGED <<user, auth, authenticator_, raised>>
    /\ UNCHANGED <<authenticators, authTask, authResults, authFinished,
                   permissions, permVars,
                   throttleVars, dispatchVars>>

----------------------------------------------------------------------------
(* AsyncAPIView.check_permissions *)

\* async_permissions: the permissions whose has_permission is a coroutine
\* function, as their positions in the list, in list order
AsyncPermissions(perms) ==
    SelectSeq(IndexSeq(Len(perms)), LAMBDA i : IsCoroutinePermission(perms[i]))

\* variant: the synchronous permissions in reverse list order
SyncPermissionsReversed(perms) ==
    LET sync == SelectSeq(IndexSeq(Len(perms)),
                          LAMBDA i : ~IsCoroutinePermission(perms[i]))
    IN [k \in 1..Len(sync) |-> sync[Len(sync) + 1 - k]]

\* sync_permissions: the others, in list order
SyncPermissions(perms) ==
    SelectSeq(IndexSeq(Len(perms)), LAMBDA i : ~IsCoroutinePermission(perms[i]))

\* variant: a denial by a synchronous permission is not acted upon
CheckSyncPermissionsIgnoringDenial(perms, sync, k) ==
    [kind |-> "passed", exc |-> None, asked |-> Len(sync)]

\* variant: every synchronous permission is asked before the first failure
\* is raised
CheckSyncPermissionsAskingAll(perms, sync, k) ==
    LET bad == {j \in k..Len(sync) : perms[sync[j]].outcome # "grant"}
        j == CHOOSE m \in bad : \A n \in bad : m <= n
        i == sync[j]
    IN IF bad = {} THEN [kind |-> "passed", exc |-> None, asked |-> Len(sync)]
       ELSE [kind |-> "raised",
             exc |-> IF perms[i].outcome = "raise" THEN <<"Exception", i>>
                     ELSE permission_denied(MessageOf(perms[i], i),
                                            CodeOf(perms[i], i)),
             asked |-> Len(sync)]

\* _check_sync_permissions: the permissions are asked one after the other;
\* the first that raises or denies ends the loop.  k is the position in the
\* list sync of the permission asked next; the answer is the outcome and the
\* number of permissions that were asked.
RECURSIVE CheckSyncPermissions(_, _, _)
CheckSyncPermissions(perms, sync, k) ==
    IF k > Len(sync) THEN [kind |-> "passed", exc |-> None, asked |-> k - 1]
    ELSE LET i == sync[k]
             r == PermResultOf(perms[i], i)
         IN IF IsException(r)
            THEN [kind |-> "raised", exc |-> r, asked |-> k]
            ELSE IF IsFalsy(r)
            THEN [kind |-> "raised",
                  exc |-> permission_denied(MessageOf(perms[i], i), CodeOf(perms[i], i)),
                  asked |-> k]
            ELSE CheckSyncPermissions(perms, sync, k + 1)

\* variant: an exception among the results counts as a grant
ScanPermissionResultsIgnoringExceptions(perms, async, results, idx) ==
    LET denied == {k \in idx..Len(async) : IsFalsy(results[k])}
        k == CHOOSE m \in denied : \A n \in denied : m <= n
    IN IF denied = {} THEN None
       ELSE permission_denied(MessageOf(perms[async[k]], async[k]),
                              CodeOf(perms[async[k]], async[k]))

\* variant: message and code are read at the position in the whole list
ScanPermissionResultsOriginalIndex(perms, async, results, idx) ==
    LET bad == {k \in idx..Len(async) :
                   IsException(results[k]) \/ IsFalsy(results[k])}
        k == CHOOSE m \in bad : \A n \in bad : m <= n
    IN IF bad = {} THEN None
       ELSE IF IsException(results[k]) THEN results[k]
       ELSE permission_denied(MessageOf(perms[k], k), CodeOf(perms[k], k))

\* variant: every exception among the results is looked for before any denial
ScanPermissionResultsExceptionFirst(perms, async, results, idx) ==
    LET excs == {k \in idx..Len(async) : IsException(results[k])}
        denied == {k \in idx..Len(async) : IsFalsy(results[k])}
        Min(S) == CHOOSE m \in S : \A n \in S : m <= n
    IN IF excs # {} THEN results[Min(excs)]
       ELSE IF denied # {}
       THEN permission_denied(MessageOf(perms[async[Min(denied)]], async[Min(denied)]),
                              CodeOf(perms[async[Min(denied)]], async[Min(denied)]))
       ELSE None

\* the scan of _check_async_permissions over the results of gather: the
\* first position whose result is an exception or falsy decides
RECURSIVE ScanPermissionResults(_, _, _, _)
ScanPermissionResults(perms, async, results, idx) ==
    IF idx > Len(async) THEN None
    ELSE IF IsException(results[idx]) THEN results[idx]
    ELSE IF IsFalsy(results[idx])
    THEN permission_denied(MessageOf(perms[async[idx]], async[idx]),
                           CodeOf(perms[async[idx]], async[idx]))
    ELSE ScanPermissionResults(perms, async, results, idx + 1)

\* check_permissions up to its await: partition, _check_sync_permissions,
\* then hand every asynchronous permission's coroutine to gather
CheckPermissionsBegin ==
    /\ pc = "check_permissions"
    /\ LET sync == SyncPermissions(permissions)
           async == AsyncPermissions(permissions)
           s == CheckSyncPermissions(permissions, sync, 1)
           asked == {sync[k] : k \in 1..s.asked}
       IN /\ permResults' = [i \in DOMAIN permResults |->
                                IF i \in asked THEN PermResultOf(permissions[i], i)
                                ELSE permResults[i]]
          /\ permCalls' = [i \in DOMAIN permCalls |->
                              IF i \in asked \/ s.kind # "raised"
                              THEN permCalls[i] + 1 ELSE permCalls[i]]
          /\ IF s.kind = "raised"
             THEN /\ permTask' = [i \in DOMAIN permTask |->
                                    IF i \in asked THEN "done" ELSE permTask[i]]
                  /\ raised' = s.exc
                  /\ pc' = "check_permissions_raised"
             ELSE /\ permTask' = [i \in DOMAIN permTask |->
                                    IF i \in asked THEN "done" ELSE "started"]
                  /\ raised' = None
                  /\ pc' = "check_permissions_gather"
    /\ UNCHANGED <<permissions, permFinished, authVars, throttleVars, dispatchVars>>

\* one asynchronous permission's task runs to completion
PermissionComplete(i) ==
    /\ pc = "check_permissions_gather"
    /\ permTask[i] = "started"
    /\ permTask' = [permTask EXCEPT ![i] = "done"]
    /\ permResults' = [permResults EXCEPT ![i] = PermResultOf(permissions[i], i)]
    /\ permFinished' = Append(permFinished, i)
    /\ UNCHANGED <<permissions, permCalls, pc, raised, authVars, throttleVars,
                   dispatchVars>>

\* _check_async_permissions from the return of gather to its end
CheckPermissionsResume ==
    /\ pc = "check_permissions_gather"
    /\ GatherSettled(permTask)
    /\ LET async == AsyncPermissions(permissions)
           results == GatherResults(async, permResults, permFinished)
           exc == ScanPermissionResults(permissions, async, results, 1)
       IN IF exc # None
          THEN /\ raised' = exc
               /\ pc' = "check_permissions_raised"
          ELSE /\ pc' = "check_permissions_done"
               /\ UNCHANGED raised
    /\ UNCHANGED <<permVars, authVars, throttleVars, dispatchVars>>

----------------------------------------------------------------------------
(* AsyncAPIView.check_throttles *)

\* async_throttles: the throttles whose allow_request is a coroutine
\* function, as their positions in the list, in list order
AsyncThrottles(thrs) ==
    SelectSeq(IndexSeq(Len(thrs)), LAMBDA i : IsCoroutineThrottle(thrs[i]))

\* sync_throttles: the others, in list order
SyncThrottles(thrs) ==
    SelectSeq(IndexSeq(Len(thrs)), LAMBDA i : ~IsCoroutineThrottle(thrs[i]))

\* the position of i in the list seq
PositionIn(seq, i) == CHOOSE k \in 1..Len(seq) : seq[k] = i

\* variant: an exception is dropped when a denial was collected before it
CheckSyncThrottlesDenialWins(thrs, sync, k, durations) ==
    LET raisers == {j \in k..Len(sync) :
                       thrs[sync[j]].outcome \in {"raise", "wait_raises"}}
        j == CHOOSE m \in raisers : \A n \in raisers : m <= n
        upto == IF raisers = {} THEN Len(sync) ELSE j
        denying == SelectSeq(SubSeq(sync, k, upto),
                             LAMBDA i : thrs[i].outcome = "deny")
        collected == durations \o [n \in 1..Len(denying) |-> thrs[denying[n]].wait]
    IN IF raisers = {} \/ Len(collected) > 0
       THEN [kind |-> "passed", exc |-> None, asked |-> upto,
             durations |-> collected]
       ELSE [kind |-> "raised", exc |-> <<"Exception", sync[j]>>, asked |-> j,
             durations |-> collected]

\* variant: the first synchronous throttle that denies ends the loop
CheckSyncThrottlesShortCircuit(thrs, sync, k, durations) ==
    LET bad == {j \in k..Len(sync) : thrs[sync[j]].outcome # "allow"}
        j == CHOOSE m \in bad : \A n \in bad : m <= n
    IN IF bad = {}
       THEN [kind |-> "passed", exc |-> None, asked |-> Len(sync),
             durations |-> durations]
       ELSE IF thrs[sync[j]].outcome = "deny"
       THEN [kind |-> "passed", exc |-> None, asked |-> j,
             durations |-> Append(durations, thrs[sync[j]].wait)]
       ELSE [kind |-> "raised", exc |-> <<"Exception", sync[j]>>, asked |-> j,
             durations |-> durations]

\* _check_sync_throttles, as throttle_durations.extend consumes it: every
\* synchronous throttle is asked in list order, and the wait of each one that
\* denies is collected; an exception of allow_request or of wait ends the
\* loop.  k is the position in
\* the list sync of the throttle asked next.
RECURSIVE CheckSyncThrottles(_, _, _, _)
CheckSyncThrottles(thrs, sync, k, durations) ==
    IF k > Len(sync)
    THEN [kind |-> "passed", exc |-> None, asked |-> k - 1, durations |-> durations]
    ELSE LET i == sync[k]
             r == ThrottleResultOf(thrs[i], i)
         IN IF IsException(r)
            THEN [kind |-> "raised", exc |-> r, asked |-> k, durations |-> durations]
            ELSE IF NotAllowed(r)
            THEN IF WaitRaises(thrs[i])
                 THEN [kind |-> "raised", exc |-> <<"Exception", i>>, asked |-> k,
                       durations |-> durations]
                 ELSE CheckSyncThrottles(thrs, sync, k + 1,
                                         Append(durations, thrs[i].wait))
            ELSE CheckSyncThrottles(thrs, sync, k + 1, durations)

\* variant: the asynchronous throttles from position k on are all started
AsyncThrottlesStartedAsBatch(async, k) == {async[j] : j \in k..Len(async)}

\* the throttles whose allow_request is started when _check_async_throttles
\* reaches position k of the list async: that one alone, since the
\* generator awaits it before it goes on
AsyncThrottlesStarted(async, k) ==
    IF k <= Len(async) THEN {async[k]} ELSE {}

\* variant: the smallest of the durations that are not None
MaxDurationSmallest(durations) ==
    LET kept == SelectSeq(durations, LAMBDA d : d # None)
    IN IF Len(kept) = 0 THEN None
       ELSE CHOOSE d \in {kept[k] : k \in 1..Len(kept)} :
                \A k \in 1..Len(kept) : d[1] <= kept[k][1]

\* durations = [d for d in throttle_durations if d is not None]
\* max(durations, default=None)
MaxDuration(durations) ==
    LET kept == SelectSeq(durations, LAMBDA d : d # None)
    IN IF Len(kept) = 0 THEN None
       ELSE CHOOSE d \in {kept[k] : k \in 1..Len(kept)} :
                \A k \in 1..Len(kept) : kept[k][1] <= d[1]

\* variant: Throttled is raised only when a duration is known
ThrottleVerdictNeedsDuration(durations) ==
    IF MaxDuration(durations) # None THEN throttled(MaxDuration(durations)) ELSE None

\* the end of check_throttles: the exception it raises, None when the list
\* throttle_durations is empty
ThrottleVerdict(durations) ==
    IF Len(durations) > 0 THEN throttled(MaxDuration(durations)) ELSE None

\* check_throttles up to its first await: partition, every synchronous
\* throttle, then the call of the first asynchronous throttle
CheckThrottlesBegin ==
    /\ pc = "check_throttles"
    /\ LET sync == SyncThrottles(throttles)
           async == AsyncThrottles(throttles)
           s == CheckSyncThrottles(throttles, sync, 1, <<>>)
           asked == {sync[k] : k \in 1..s.asked}
           started == IF s.kind = "raised" THEN {}
                      ELSE AsyncThrottlesStarted(async, 1)
           verdict == ThrottleVerdict(s.durations)
       IN /\ throttleTask' = [i \in DOMAIN throttleTask |->
                                 IF i \in asked THEN "done"
                                 ELSE IF i \in started THEN "started"
                                 ELSE throttleTask[i]]
          /\ throttleCalls' = [i \in DOMAIN throttleCalls |->
                                  IF i \in asked \cup started
                                  THEN throttleCalls[i] + 1 ELSE throttleCalls[i]]
          /\ throttleWaits' = [i \in DOMAIN throttleWaits |->
                                  IF i \in asked
                                     /\ NotAllowed(ThrottleResultOf(throttles[i], i))
                                  THEN throttleWaits[i] + 1 ELSE throttleWaits[i]]
          /\ throttleDurations' = s.durations
          /\ IF s.kind = "raised"
             THEN raised' = s.exc /\ pc' = "check_throttles_raised"
             ELSE IF Len(async) > 0
             THEN raised' = None /\ pc' = "check_throttles_await"
             ELSE IF verdict # None
             THEN raised' = verdict /\ pc' = "check_throttles_raised"
             ELSE raised' = None /\ pc' = "check_throttles_done"
    /\ UNCHANGED <<throttles, authVars, permVars, dispatchVars>>

\* the asynchronous throttle i that is awaited answers; check_throttles goes
\* on to its next await or to its end
ThrottleComplete(i) ==
    /\ pc = "check_throttles_await"
    /\ throttleTask[i] = "started"
    /\ LET async == AsyncThrottles(throttles)
           k == PositionIn(async, i)
           r == ThrottleResultOf(throttles[i], i)
           denied == NotAllowed(r)
           exc == IF IsException(r) THEN r
                  ELSE IF denied /\ WaitRaises(throttles[i])
                  THEN <<"Exception", i>> ELSE None
           durations == IF denied /\ exc = None
                        THEN Append(throttleDurations, throttles[i].wait)
                        ELSE throttleDurations
           started == IF exc # None THEN {}
                      ELSE AsyncThrottlesStarted(async, k + 1)
           verdict == ThrottleVerdict(durations)
       IN /\ throttleTask' = [j \in DOMAIN throttleTask |->
                                 IF j = i THEN "done"
                                 ELSE IF j \in started /\ throttleTask[j] = "idle"
                                 THEN "started"
                                 ELSE throttleTask[j]]
          /\ throttleCalls' = [j \in DOMAIN throttleCalls |->
                                  IF j \in started /\ throttleTask[j] = "idle"
                                  THEN throttleCalls[j] + 1 ELSE throttleCalls[j]]
          /\ throttleWaits' = [j \in DOMAIN throttleWaits |->
                                  IF j = i /\ denied
                                  THEN throttleWaits[j] + 1 ELSE throttleWaits[j]]
          /\ throttleDurations' = durations
          /\ IF exc # None
             THEN raised' = exc /\ pc' = "check_throttles_raised"
             ELSE IF k < Len(async)
             THEN UNCHANGED <<raised, pc>>
             ELSE IF verdict # None
             THEN raised' = verdict /\ pc' = "check_throttles_raised"
             ELSE pc' = "check_throttles_done" /\ UNCHANGED raised
    /\ UNCHANGED <<throttles, authVars, permVars, dispatchVars>>

----------------------------------------------------------------------------
(* AsyncAPIView.dispatch and AsyncAPIView.handle_exception *)

\* the values of request.method
Methods == {"GET", "get", "PATCH"}

\* request.method.lower()
Lower(m) ==
    CASE m = "GET" -> "get"
      [] m = "get" -> "get"
      [] m = "PATCH" -> "patch"

\* the names self.http_method_names may hold
MethodNames == {"get", "patch"}

\* what getattr(self, name, None) may find
HandlerKinds == {"missing", "sync", "async"}

\* what the handler coroutine may do
HandlerOutcomes == {"response", "Exception", "NotAuthenticated"}

\* what self.get_authenticate_header(self.request) may return
AuthHeaders == {None, <<"">>, <<"Bearer">>}

HandlerTypeError == <<"TypeError", "Handler should be async function">>

HTTPStatusForbidden == 403

\* variant: the stages of initial() with the permissions ahead
InitialStagesPermissionsFirst ==
    <<"check_permissions", "authenticate", "check_throttles">>

\* variant: initial() authenticates the request a second time at its end
InitialStagesAuthenticateAgain ==
    <<"authenticate", "check_permissions", "check_throttles", "authenticate">>

\* the awaits of initial(), in order
InitialStages == <<"authenticate", "check_permissions", "check_throttles">>

\* the positions at which an exception is travelling up to dispatch
RaisedPcs ==
    {"initial_raised", "authenticate_raised", "check_permissions_raised",
     "check_throttles_raised", "dispatch_raised"}

\* variant: the attribute is looked up whether or not the name is allowed
LookupHandlerIgnoringNames(m, names, kind) ==
    IF kind = "missing" THEN None ELSE <<kind>>

\* the handler dispatch finds for method m (None when there is none):
\*   if request.method.lower() in self.http_method_names:
\*       handler = getattr(self, request.method.lower(), None)
\*   else: handler = None
LookupHandler(m, names, kind) ==
    IF Lower(m) \in names
    THEN (IF kind = "missing" THEN None ELSE <<kind>>)
    ELSE None

\* variant: any handler found is awaited
IsCoroutineHandlerAlways(handler) == TRUE

\* asyncio.iscoroutinefunction(handler)
IsCoroutineHandler(handler) == handler = <<"async">>

\* variant: the finalizer is bypassed
finalize_response_bypassed(resp) == resp

\* self.finalize_response(request, response, *args, **kwargs)
finalize_response(resp) == <<"finalized", resp>>

\* variant: only API exceptions are caught
CaughtAPIExceptionsOnly(exc) == IsAPIException(exc)

\* except Exception as exc
Caught(exc) == IsException(exc)

\* the status_code an exception has from its class
ClassStatus(exc) == <<"status_code", exc[1]>>

\* variant: only NotAuthenticated is treated as an authentication error
IsAuthenticationErrorNotAuthenticatedOnly(exc) == exc[1] = "NotAuthenticated"

\* isinstance(exc, (exceptions.NotAuthenticated, exceptions.AuthenticationFailed))
IsAuthenticationError(exc) == exc[1] \in {"NotAuthenticated", "AuthenticationFailed"}

\* the exception as handle_exception leaves it, given what
\* get_authenticate_header returned (None when it is not asked):
\* <<exc, exc.status_code, exc.auth_header, header>>
MarkException(exc, header) ==
    IF IsAuthenticationError(exc)
    THEN IF header \notin {None, <<"">>}
         THEN <<exc, ClassStatus(exc), header, header>>
         ELSE <<exc, <<HTTPStatusForbidden>>, None, header>>
    ELSE <<exc, ClassStatus(exc), None, header>>

\* dispatch up to the first await of initial(): the request is built, the
\* format, the renderer and the version are determined by the collaborators,
\* which may raise
DispatchBegin ==
    /\ pc = "dispatch"
    /\ \E ok \in BOOLEAN :
          IF ok
          THEN pc' = InitialStages[1] /\ raised' = None
          ELSE pc' = "initial_raised" /\ raised' = <<"Exception", 0>>
    /\ UNCHANGED <<authVars, permVars, throttleVars, dispatchVars>>

\* initial() goes from a stage that returned to its next await, and from
\* the last one back to dispatch
InitialNextStage ==
    /\ \E k \in 1..Len(InitialStages) :
          /\ pc = InitialStages[k] \o "_done"
          /\ stages' = Append(stages, InitialStages[k])
          /\ pc' = IF k < Len(InitialStages) THEN InitialStages[k + 1]
                   ELSE "handler_lookup"
    /\ UNCHANGED <<authVars, permVars, throttleVars, raised, method, methodNames,
                   handlerKind, handlerTask, handled, response, finalizeCalls,
                   returned, reraised>>

\* dispatch looks the handler up and calls it, or raises
DispatchHandler ==
    /\ pc = "handler_lookup"
    /\ \E m \in Methods, names \in SUBSET MethodNames, kind \in HandlerKinds :
          /\ method' = m
          /\ methodNames' = names
          /\ handlerKind' = kind
          /\ LET handler == LookupHandler(m, names, kind)
             IN IF handler = None
                THEN /\ raised' = <<"MethodNotAllowed", m>>
                     /\ pc' = "dispatch_raised"
                     /\ UNCHANGED handlerTask
                ELSE IF IsCoroutineHandler(handler)
                THEN /\ handlerTask' = "started"
                     /\ pc' = "handler_await"
                     /\ UNCHANGED raised
                ELSE /\ raised' = HandlerTypeError
                     /\ pc' = "dispatch_raised"
                     /\ UNCHANGED handlerTask
    /\ UNCHANGED <<authVars, permVars, throttleVars, stages, handled, response,
                   finalizeCalls, returned, reraised>>

\* the handler answers: its response is finalized and returned, or its
\* exception travels to the except clause
HandlerComplete ==
    /\ pc = "handler_await"
    /\ handlerTask = "started"
    /\ handlerTask' = "done"
    /\ \E outcome \in HandlerOutcomes :
          IF outcome = "response"
          THEN /\ response' = <<"response", "handler", FALSE>>
               /\ finalizeCalls' = finalizeCalls + 1
               /\ returned' = finalize_response(response')
               /\ pc' = "dispatch_returned"
               /\ UNCHANGED raised
          ELSE /\ raised' = <<outcome, 0>>
               /\ pc' = "dispatch_raised"
               /\ UNCHANGED <<response, finalizeCalls, returned>>
    /\ UNCHANGED <<authVars, permVars, throttleVars, stages, method, methodNames,
                   handlerKind, handled, reraised>>

\* the except clause of dispatch: handle_exception, then finalize_response
\* and return, unless the exception handler gave no response
HandleException ==
    /\ pc \in RaisedPcs
    /\ IF ~Caught(raised)
       THEN /\ reraised' = raised
            /\ pc' = "dispatch_reraised"
            /\ UNCHANGED <<handled, response, finalizeCalls, returned>>
       ELSE \E header \in AuthHeaders, translated \in BOOLEAN :
               /\ IsAuthenticationError(raised) \/ header = None
               /\ handled' = MarkException(raised, header)
               /\ IF translated
                  THEN /\ response' = <<"response", "exception_handler", TRUE>>
                       /\ finalizeCalls' = finalizeCalls + 1
                       /\ returned' = finalize_response(response')
                       /\ pc' = "dispatch_returned"
                       /\ UNCHANGED reraised
                  ELSE /\ reraised' = raised
                       /\ pc' = "dispatch_reraised"
                       /\ UNCHANGED <<response, finalizeCalls, returned>>
    /\ UNCHANGED <<authVars, permVars, throttleVars, raised, stages, method,
                   methodNames, handlerKind, handlerTask>>

----------------------------------------------------------------------------
(* Specification *)

\* no throttle is configured
NoThrottles ==
    /\ throttles = <<>>
    /\ throttleTask = <<>>
    /\ throttleCalls = <<>>
    /\ throttleWaits = <<>>
    /\ throttleDurations = <<>>

\* no dispatch is under way
DispatchIdle ==
    /\ stages = <<>>
    /\ method = ""
    /\ methodNames = {}
    /\ handlerKind = ""
    /\ handlerTask = "idle"
    /\ handled = None
    /\ response = None
    /\ finalizeCalls = 0
    /\ returned = None
    /\ reraised = None

\* a request on which authenticate() is about to be called; user, auth and
\* _authenticator may hold what an earlier call left
InitAuthenticate ==
    /\ authenticators \in SeqUpTo(Authenticator, MaxAuthenticators)
    /\ \E stale \in BOOLEAN :
          /\ user = IF stale THEN UserOf(0) ELSE None
          /\ auth = IF stale THEN TokenOf(0) ELSE None
          /\ authenticator_ = IF stale THEN <<"authenticator", 0>> ELSE None
    /\ authTask = [i \in 1..Len(authenticators) |-> "idle"]
    /\ authResults = [i \in 1..Len(authenticators) |-> None]
    /\ authFinished = <<>>
    /\ permissions = <<>>
    /\ permTask = <<>>
    /\ permResults = <<>>
    /\ permFinished = <<>>
    /\ permCalls = <<>>
    /\ raised = None
    /\ NoThrottles
    /\ DispatchIdle
    /\ pc = "authenticate"

\* a request on which check_permissions is about to be called
InitCheckPermissions ==
    /\ permissions \in SeqUpTo(Permission, MaxPermissions)
    /\ permTask = [i \in 1..Len(permissions) |-> "idle"]
    /\ permResults = [i \in 1..Len(permissions) |-> None]
    /\ permFinished = <<>>
    /\ permCalls = [i \in 1..Len(permissions) |-> 0]
    /\ authenticators = <<>>
    /\ user = None
    /\ auth = None
    /\ authenticator_ = None
    /\ authTask = <<>>
    /\ authResults = <<>>
    /\ authFinished = <<>>
    /\ raised = None
    /\ NoThrottles
    /\ DispatchIdle
    /\ pc = "check_permissions"

\* a request on which check_throttles is about to be called
InitCheckThrottles ==
    /\ throttles \in SeqUpTo(Throttle, MaxThrottles)
    /\ throttleTask = [i \in 1..Len(throttles) |-> "idle"]
    /\ throttleCalls = [i \in 1..Len(throttles) |-> 0]
    /\ throttleWaits = [i \in 1..Len(throttles) |-> 0]
    /\ throttleDurations = <<>>
    /\ authenticators = <<>>
    /\ user = None
    /\ auth = None
    /\ authenticator_ = None
    /\ authTask = <<>>
    /\ authResults = <<>>
    /\ authFinished = <<>>
    /\ permissions = <<>>
    /\ permTask = <<>>
    /\ permResults = <<>>
    /\ permFinished = <<>>
    /\ permCalls = <<>>
    /\ raised = None
    /\ DispatchIdle
    /\ pc = "check_throttles"

Init == InitAuthenticate \/ InitCheckPermissions \/ InitCheckThrottles

Next ==
    \/ AuthenticateBegin
    \/ \E i \in 1..Len(authenticators) : AuthenticatorComplete(i)
    \/ AuthenticateResume
    \/ CheckPermissionsBegin
    \/ \E i \in 1..Len(permissions) : PermissionComplete(i)
    \/ CheckPermissionsResume
    \/ CheckThrottlesBegin
    \/ \E i \in 1..Len(throttles) : ThrottleComplete(i)

Spec == Init /\ [][Next]_vars

\* a synchronous authenticator is never invoked, permissions and throttles
\* are asked for message, code and wait only when they deny: the checks of a
\* dispatched view are drawn without the attributes that are never read
DispatchAuthenticator == {a \in Authenticator : ~a.isAsync => a.outcome = "none"}

DispatchPermission == {p \in Permission : p.outcome # "deny" => ~p.hasMeta}

DispatchThrottle == {t \in Throttle : t.wait \in {None, Duration(0)}}

\* a view about to dispatch a request
InitDispatch ==
    /\ authenticators \in SeqUpTo(DispatchAuthenticator, MaxDispatchChecks)
    /\ permissions \in
          SeqUpTo(DispatchPermission, MaxDispatchChecks - Len(authenticators))
    /\ throttles \in
          SeqUpTo(DispatchThrottle,
                  MaxDispatchChecks - Len(authenticators) - Len(permissions))
    /\ user = None
    /\ auth = None
    /\ authenticator_ = None
    /\ authTask = [i \in 1..Len(authenticators) |-> "idle"]
    /\ authResults = [i \in 1..Len(authenticators) |-> None]
    /\ authFinished = <<>>
    /\ permTask = [i \in 1..Len(permissions) |-> "idle"]
    /\ permResults = [i \in 1..Len(permissions) |-> None]
    /\ permFinished = <<>>
    /\ permCalls = [i \in 1..Len(permissions) |-> 0]
    /\ throttleTask = [i \in 1..Len(throttles) |-> "idle"]
    /\ throttleCalls = [i \in 1..Len(throttles) |-> 0]
    /\ throttleWaits = [i \in 1..Len(throttles) |-> 0]
    /\ throttleDurations = <<>>
    /\ raised = None
    /\ DispatchIdle
    /\ pc = "dispatch"

NextDispatch ==
    \/ DispatchBegin
    \/ AuthenticateBegin
    \/ \E i \in 1..Len(authenticators) : AuthenticatorComplete(i)
    \/ AuthenticateResume
    \/ CheckPermissionsBegin
    \/ \E i \in 1..Len(permissions) : PermissionComplete(i)
    \/ CheckPermissionsResume
    \/ CheckThrottlesBegin
    \/ \E i \in 1..Len(throttles) : ThrottleComplete(i)
    \/ InitialNextStage
    \/ DispatchHandler
    \/ HandlerComplete
    \/ HandleException

SpecDispatch == InitDispatch /\ [][NextDispatch]_vars

----------------------------------------------------------------------------
(* Properties of AsyncRequest.authenticate *)

AuthIdx == 1..Len(authenticators)

AuthStageOver == pc \in {"authenticate_done", "authenticate_raised"}

AuthExceptionOutcomes == {"AuthenticationFailed", "NotAuthenticated", "Exception"}

\* authenticator i was invoked and ran to completion
AuthRan(i) == authTask[i] = "done"

AllAuthenticatorsAsync == \A i \in AuthIdx : authenticators[i].isAsync

NoAuthenticatorRaises ==
    \A i \in AuthIdx : authenticators[i].outcome \notin AuthExceptionOutcomes

\* i is the lowest index whose authenticator returns a pair
LowestPair(i) ==
    /\ authenticators[i].outcome = "pair"
    /\ \A j \in 1..(i - 1) : authenticators[j].outcome # "pair"

\* C1: in a list of asynchronous authenticators none of which raises,
\* authenticate() succeeds and user, auth and _authenticator are those of the
\* lowest-index authenticator that returned a pair, in whatever order the
\* authenticators completed.
C1_LowestIndexPairWins ==
    (AuthStageOver /\ AllAuthenticatorsAsync /\ NoAuthenticatorRaises) =>
        /\ pc = "authenticate_done"
        /\ \A i \in AuthIdx : LowestPair(i) =>
              /\ user = UserOf(i)
              /\ auth = TokenOf(i)
              /\ authenticator_ = <<"authenticator", i>>

\* two authenticators return a pair, the higher-index one completed first,
\* and the lower-index one is the winner
C1_Witness ==
    /\ pc = "authenticate_done"
    /\ Len(authenticators) >= 2
    /\ authenticators[1].outcome = "pair"
    /\ authenticators[2].outcome = "pair"
    /\ authFinished[1] = 2
    /\ authenticator_ = <<"authenticator", 1>>
    /\ user = UserOf(1)

\* C2 as stated: whenever no authenticator returned a pair and none raised,
\* authenticate() completes without error with user, auth and _authenticator
\* None.
C2_Original ==
    (/\ AuthStageOver
     /\ \A i \in AuthIdx : authenticators[i].outcome = "none") =>
        /\ pc = "authenticate_done"
        /\ raised = None
        /\ user = None /\ auth = None /\ authenticator_ = None

\* C2 amended: in a list of asynchronous authenticators (the empty list
\* included) none of which returns a pair or raises, authenticate() completes
\* without error and user, auth and _authenticator are None.
C2_AnonymousIsSuccess ==
    (/\ AuthStageOver
     /\ AllAuthenticatorsAsync
     /\ \A i \in AuthIdx : authenticators[i].outcome = "none") =>
        /\ pc = "authenticate_done"
        /\ raised = None
        /\ user = None /\ auth = None /\ authenticator_ = None

\* every authenticator of a list of two or more ran and returned None
C2_Witness ==
    /\ pc = "authenticate_done"
    /\ Len(authenticators) >= 2
    /\ \A i \in AuthIdx : AuthRan(i) /\ authenticators[i].outcome = "none"
    /\ user = None /\ auth = None /\ authenticator_ = None

\* C3: if the authenticator at index i raised and no authenticator below i
\* returned a pair or raised, authenticate() raises the exception of i, also
\* when an authenticator above i returned a pair or raised.
C3_LowestIndexExceptionRaised ==
    AuthStageOver =>
        \A i \in AuthIdx :
            (/\ AuthRan(i)
             /\ authenticators[i].outcome \in AuthExceptionOutcomes
             /\ \A j \in 1..(i - 1) : authenticators[j].outcome = "none") =>
                /\ pc = "authenticate_raised"
                /\ raised = <<authenticators[i].outcome, i>>

\* the authenticator at index 2 raised, the one at index 3 returned a pair
\* and completed first
C3_Witness ==
    /\ pc = "authenticate_raised"
    /\ Len(authenticators) = 3
    /\ AllAuthenticatorsAsync
    /\ authenticators[1].outcome = "none"
    /\ authenticators[2].outcome \in AuthExceptionOutcomes
    /\ authenticators[3].outcome = "pair"
    /\ authFinished[1] = 3
    /\ raised = <<authenticators[2].outcome, 2>>

\* C4: if any authenticator of the list is synchronous, authenticate() raises
\* the TypeError without having invoked any authenticator, and user, auth
\* and _authenticator are None afterwards.
C4_SyncAuthenticatorTypeError ==
    (pc # "authenticate" /\ \E i \in AuthIdx : ~authenticators[i].isAsync) =>
        /\ pc = "authenticate_raised"
        /\ raised = AuthTypeError
        /\ \A i \in AuthIdx : authTask[i] = "idle" /\ authResults[i] = None
        /\ user = None /\ auth = None /\ authenticator_ = None

\* an asynchronous authenticator that would return a pair precedes a
\* synchronous one
C4_Witness ==
    /\ pc = "authenticate_raised"
    /\ raised = AuthTypeError
    /\ Len(authenticators) >= 2
    /\ authenticators[1].isAsync /\ authenticators[1].outcome = "pair"
    /\ ~authenticators[2].isAsync
    /\ authTask[1] = "idle"

\* C5 as stated: the synchronous authenticators are executed first, in list
\* order, until one returns a pair, and the asynchronous ones are started
\* only if no synchronous authenticator won.
C5_Original ==
    AuthStageOver =>
        /\ \A i \in AuthIdx :
              (/\ ~authenticators[i].isAsync
               /\ \A j \in 1..(i - 1) :
                     ~authenticators[j].isAsync => authenticators[j].outcome = "none")
                 => AuthRan(i)
        /\ \A i \in AuthIdx :
              (authenticators[i].isAsync /\ authTask[i] # "idle") =>
                  \A j \in AuthIdx :
                      ~authenticators[j].isAsync => authenticators[j].outcome # "pair"

\* C5 amended: no synchronous authenticator is ever executed, and the
\* asynchronous authenticators are started only if the list holds no
\* synchronous authenticator.
C5_SyncAuthenticatorsNeverRun ==
    /\ \A i \in AuthIdx : ~authenticators[i].isAsync => authTask[i] = "idle"
    /\ (\E i \in AuthIdx : authTask[i] # "idle") => AllAuthenticatorsAsync

\* a synchronous authenticator that would return a pair comes first and was
\* not executed; the asynchronous one behind it was not started
C5_Witness ==
    /\ pc = "authenticate_raised"
    /\ Len(authenticators) >= 2
    /\ ~authenticators[1].isAsync /\ authenticators[1].outcome = "pair"
    /\ authenticators[2].isAsync
    /\ authTask[1] = "idle" /\ authTask[2] = "idle"
    /\ authenticator_ = None

\* C6: the authenticators are all started together, before the await, and
\* authenticate() decides only when every one of them has completed: none
\* is left in flight.
C6_AllStartedAllCompleted ==
    /\ (\E i \in AuthIdx : authTask[i] # "idle") =>
           \A i \in AuthIdx : authTask[i] # "idle"
    /\ AuthStageOver =>
           \A i \in AuthIdx : authTask[i] # "started"
    /\ (AuthStageOver /\ raised # AuthTypeError) =>
           \A i \in AuthIdx : AuthRan(i)

\* the authenticator at index 1 raised and completed first; the two behind
\* it still ran to completion before authenticate() raised
C6_Witness ==
    /\ pc = "authenticate_raised"
    /\ Len(authenticators) = 3
    /\ AllAuthenticatorsAsync
    /\ authenticators[1].outcome \in AuthExceptionOutcomes
    /\ authFinished[1] = 1
    /\ \A i \in AuthIdx : AuthRan(i)
    /\ raised = <<authenticators[1].outcome, 1>>

----------------------------------------------------------------------------
(* Properties of AsyncAPIView.check_permissions *)

PermIdx == 1..Len(permissions)

PermStageOver == pc \in {"check_permissions_done", "check_permissions_raised"}

\* permission i was asked and answered
PermRan(i) == permTask[i] = "done"

\* i is evaluated before j: synchronous permissions come before asynchronous
\* ones, and list order decides within each kind
EvaluatedBefore(i, j) ==
    \/ ~permissions[i].isAsync /\ permissions[j].isAsync
    \/ permissions[i].isAsync = permissions[j].isAsync /\ i < j

\* i is the first permission in evaluation order that does not grant
FirstNonGrant(i) ==
    /\ permissions[i].outcome # "grant"
    /\ \A j \in PermIdx \ {i} :
          permissions[j].outcome # "grant" => EvaluatedBefore(i, j)

\* the exception permission i leads to when it decides
PermExceptionOf(i) ==
    IF permissions[i].outcome = "raise" THEN <<"Exception", i>>
    ELSE <<"PermissionDenied",
           IF permissions[i].hasMeta THEN <<"message", i>> ELSE None,
           IF permissions[i].hasMeta THEN <<"code", i>> ELSE None>>

\* C7 as stated: if any authenticator or permission check that was run
\* raised, the stage does not end in a clean success; a stage ends in
\* success or in one raised error.
C7_Original ==
    /\ (\E i \in AuthIdx :
           AuthRan(i) /\ authenticators[i].outcome \in AuthExceptionOutcomes)
          => pc # "authenticate_done"
    /\ (\E i \in PermIdx : PermRan(i) /\ permissions[i].outcome = "raise")
          => pc # "check_permissions_done"
    /\ pc \in {"authenticate_done", "check_permissions_done"} => raised = None
    /\ pc \in {"authenticate_raised", "check_permissions_raised"} => raised # None

\* C7 amended: if an authenticator raised and no authenticator at a lower
\* index returned a pair, or if any permission check that was run raised,
\* the stage does not end in a clean success; a stage ends in success or in
\* one raised error.
C7_ErrorsNotSwallowed ==
    /\ (\E i \in AuthIdx :
           /\ AuthRan(i)
           /\ authenticators[i].outcome \in AuthExceptionOutcomes
           /\ \A j \in 1..(i - 1) : authenticators[j].outcome # "pair")
          => pc # "authenticate_done"
    /\ (\E i \in PermIdx : PermRan(i) /\ permissions[i].outcome = "raise")
          => pc # "check_permissions_done"
    /\ pc \in {"authenticate_done", "check_permissions_done"} => raised = None
    /\ pc \in {"authenticate_raised", "check_permissions_raised"} => raised # None

\* an asynchronous permission raised behind one that granted, and
\* check_permissions ended with that exception
C7_Witness ==
    /\ pc = "check_permissions_raised"
    /\ Len(permissions) >= 2
    /\ permissions[1].outcome = "grant" /\ PermRan(1)
    /\ permissions[2].isAsync /\ permissions[2].outcome = "raise" /\ PermRan(2)
    /\ raised = <<"Exception", 2>>

\* C8: check_permissions succeeds exactly when every permission grants (so
\* it does with the empty list), and when some permission denies and none
\* raises it raises PermissionDenied.
C8_AllMustGrant ==
    PermStageOver =>
        /\ (pc = "check_permissions_done") <=>
               (\A i \in PermIdx : permissions[i].outcome = "grant")
        /\ (/\ \E i \in PermIdx : permissions[i].outcome = "deny"
            /\ \A i \in PermIdx : permissions[i].outcome # "raise")
              => (raised # None /\ raised[1] = "PermissionDenied")

\* a synchronous permission granted, an asynchronous one denied
C8_Witness ==
    /\ pc = "check_permissions_raised"
    /\ Len(permissions) >= 2
    /\ ~permissions[1].isAsync /\ permissions[1].outcome = "grant"
    /\ permissions[2].isAsync /\ permissions[2].outcome = "deny"
    /\ \A i \in PermIdx : permissions[i].outcome # "raise"
    /\ raised # None /\ raised[1] = "PermissionDenied"

\* C9 as stated: the PermissionDenied raised carries the message and code of
\* the lowest-index denying permission of the list.
C9_Original ==
    (pc = "check_permissions_raised" /\ raised[1] = "PermissionDenied") =>
        \A i \in PermIdx :
            (/\ permissions[i].outcome = "deny"
             /\ \A j \in 1..(i - 1) : permissions[j].outcome # "deny")
               => raised = PermExceptionOf(i)

\* C9 amended: the PermissionDenied raised carries the message and code of
\* the first denying permission in evaluation order (synchronous permissions
\* in list order, then asynchronous permissions in list order), whatever
\* order the asynchronous permissions completed in.
C9_FirstDenialInEvaluationOrder ==
    (pc = "check_permissions_raised" /\ raised[1] = "PermissionDenied") =>
        \A i \in PermIdx :
            (/\ permissions[i].outcome = "deny"
             /\ \A j \in PermIdx \ {i} :
                   permissions[j].outcome = "deny" => EvaluatedBefore(i, j))
               => raised = PermExceptionOf(i)

\* a synchronous permission granted, two asynchronous permissions with
\* message and code denied, the later one completed first, and the
\* earlier one is reported
C9_Witness ==
    /\ pc = "check_permissions_raised"
    /\ Len(permissions) = 3
    /\ ~permissions[1].isAsync /\ permissions[1].outcome = "grant"
    /\ permissions[2].isAsync /\ permissions[2].outcome = "deny"
    /\ permissions[2].hasMeta
    /\ permissions[3].isAsync /\ permissions[3].outcome = "deny"
    /\ permissions[3].hasMeta
    /\ permFinished[1] = 3
    /\ raised = <<"PermissionDenied", <<"message", 2>>, <<"code", 2>>>>

\* C10 as stated: when a permission raises and another denies,
\* check_permissions raises the exception of the lowest-index raising
\* permission, not PermissionDenied.
C10_Original ==
    (/\ PermStageOver
     /\ \E i \in PermIdx : permissions[i].outcome = "raise"
     /\ \E i \in PermIdx : permissions[i].outcome = "deny") =>
        \A i \in PermIdx :
            (/\ permissions[i].outcome = "raise"
             /\ \A j \in 1..(i - 1) : permissions[j].outcome # "raise")
               => raised = <<"Exception", i>>

\* C10 amended: when permissions raise or deny, the first of them in
\* evaluation order (synchronous permissions in list order, then
\* asynchronous permissions in list order) decides: check_permissions raises
\* its exception if it raised, PermissionDenied with its message and code if
\* it denied.
C10_FirstFailureInEvaluationOrder ==
    PermStageOver =>
        \A i \in PermIdx :
            FirstNonGrant(i) =>
                /\ pc = "check_permissions_raised"
                /\ raised = PermExceptionOf(i)

\* an asynchronous permission denied ahead of one that raised:
\* PermissionDenied is raised although the batch holds an exception
C10_Witness ==
    /\ pc = "check_permissions_raised"
    /\ Len(permissions) >= 2
    /\ permissions[1].isAsync /\ permissions[1].outcome = "deny"
    /\ permissions[2].isAsync /\ permissions[2].outcome = "raise"
    /\ PermRan(2)
    /\ raised # None /\ raised[1] = "PermissionDenied"

----------------------------------------------------------------------------
(* Properties of AsyncAPIView.check_throttles *)

ThrottleIdx == 1..Len(throttles)

ThrottleStageOver == pc \in {"check_throttles_done", "check_throttles_raised"}

\* the outcomes with which a throttle raises, from allow_request or from wait
ThrottleRaisingOutcomes == {"raise", "wait_raises"}

NoThrottleRaises ==
    \A i \in ThrottleIdx : throttles[i].outcome \notin ThrottleRaisingOutcomes

SomeThrottleDenies == \E i \in ThrottleIdx : throttles[i].outcome = "deny"

\* the waits, other than None, of the throttles that deny
DeniedWaits ==
    {throttles[i].wait : i \in {j \in ThrottleIdx : throttles[j].outcome = "deny"}}
        \ {None}

\* C11: when no throttle raises, check_throttles raises Throttled exactly
\* when some throttle, synchronous or asynchronous, denies; otherwise (so
\* with the empty list) it returns without raising.
C11_ThrottledIffDenied ==
    (ThrottleStageOver /\ NoThrottleRaises) =>
        /\ SomeThrottleDenies <=>
              (pc = "check_throttles_raised" /\ raised[1] = "Throttled")
        /\ ~SomeThrottleDenies =>
              (pc = "check_throttles_done" /\ raised = None)

\* a synchronous throttle allowed and the only denial came from an
\* asynchronous throttle whose wait is None
C11_Witness ==
    /\ pc = "check_throttles_raised"
    /\ Len(throttles) = 2
    /\ ~throttles[1].isAsync /\ throttles[1].outcome = "allow"
    /\ throttles[2].isAsync /\ throttles[2].outcome = "deny"
    /\ throttles[2].wait = None
    /\ raised = <<"Throttled", None>>

\* C12: the duration Throttled is raised with is the largest of the waits,
\* other than None, of the throttles that deny, and None when every such
\* wait is None.
C12_RetryAfterIsMaximum ==
    (pc = "check_throttles_raised" /\ raised[1] = "Throttled") =>
        /\ DeniedWaits = {} => raised[2] = None
        /\ DeniedWaits # {} =>
              /\ raised[2] \in DeniedWaits
              /\ \A d \in DeniedWaits : d[1] <= raised[2][1]

\* an asynchronous throttle at index 1 holds the largest wait, a synchronous
\* one a smaller wait and a third one None
C12_Witness ==
    /\ pc = "check_throttles_raised"
    /\ Len(throttles) = 3
    /\ throttles[1].isAsync /\ throttles[1].outcome = "deny"
    /\ throttles[1].wait = Duration(2)
    /\ ~throttles[2].isAsync /\ throttles[2].outcome = "deny"
    /\ throttles[2].wait = Duration(1)
    /\ throttles[3].outcome = "deny" /\ throttles[3].wait = None
    /\ raised = <<"Throttled", Duration(2)>>

\* C13 as stated: the asynchronous throttles are one batch, all of them
\* started before any of them is awaited.
C13_Original ==
    (\E i \in ThrottleIdx : throttles[i].isAsync /\ throttleTask[i] # "idle") =>
        \A j \in ThrottleIdx : throttles[j].isAsync => throttleTask[j] # "idle"

\* C13 amended: the asynchronous throttles are evaluated one at a time in
\* list order: at most one is in flight, and one is started only when every
\* asynchronous throttle ahead of it in the list has completed.
C13_AsyncThrottlesSequential ==
    /\ Cardinality({i \in ThrottleIdx : throttleTask[i] = "started"}) <= 1
    /\ \A i, j \in ThrottleIdx :
          (/\ i < j
           /\ throttles[i].isAsync /\ throttles[j].isAsync
           /\ throttleTask[j] # "idle") => throttleTask[i] = "done"

\* of three asynchronous throttles the first has answered, the second is
\* awaited and the third has not been started
C13_Witness ==
    /\ pc = "check_throttles_await"
    /\ Len(throttles) = 3
    /\ \A i \in ThrottleIdx : throttles[i].isAsync
    /\ throttleTask[1] = "done"
    /\ throttleTask[2] = "started"
    /\ throttleTask[3] = "idle"

----------------------------------------------------------------------------
(* Properties of AsyncAPIView.dispatch and handle_exception *)

StageOrder == <<"authenticate", "check_permissions", "check_throttles">>

DispatchOver == pc \in {"dispatch_returned", "dispatch_reraised"}

AuthenticatorsActive == \E i \in AuthIdx : authTask[i] # "idle"

PermissionsActive == \E i \in PermIdx : permTask[i] # "idle"

ThrottlesActive == \E i \in ThrottleIdx : throttleTask[i] # "idle"

\* dispatch has looked the handler up
HandlerLookedUp == handlerKind \in HandlerKinds

HandlerActive == HandlerLookedUp \/ handlerTask # "idle"

\* request.method in lower case
LowerCased(m) == IF m \in {"GET", "get"} THEN "get" ELSE "patch"

\* the view has no handler for the method dispatch read
NoHandlerForMethod ==
    LowerCased(method) \notin methodNames \/ handlerKind = "missing"

\* C14: within one dispatch authenticate, check_permissions, check_throttles
\* and the handler run in this order, each only when the one before it
\* returned without raising: no permission is asked before every
\* authenticator has completed, and a stage that raised is followed by no
\* later stage and no handler.
C14_StagesInOrder ==
    /\ \E k \in 0..3 : stages = SubSeq(StageOrder, 1, k)
    /\ (pc \in {"initial_raised", "authenticate_raised"}) => stages = <<>>
    /\ pc = "initial_raised" => ~AuthenticatorsActive
    /\ pc = "check_permissions_raised" => stages = SubSeq(StageOrder, 1, 1)
    /\ pc = "check_throttles_raised" => stages = SubSeq(StageOrder, 1, 2)
    /\ (PermissionsActive \/ pc = "check_permissions") =>
           /\ Len(stages) >= 1
           /\ \A i \in AuthIdx : authTask[i] = "done"
    /\ (ThrottlesActive \/ pc = "check_throttles") =>
           /\ Len(stages) >= 2
           /\ \A i \in PermIdx : permTask[i] = "done"
    /\ HandlerActive =>
           /\ Len(stages) = 3
           /\ \A i \in ThrottleIdx : throttleTask[i] = "done"

\* the permission of a view with one authenticator, one permission and one
\* throttle denied: the throttle was never asked and no handler was looked
\* up, and the response comes from the exception handler
C14_Witness ==
    /\ pc = "dispatch_returned"
    /\ Len(authenticators) = 1 /\ Len(permissions) = 1 /\ Len(throttles) = 1
    /\ authTask[1] = "done"
    /\ permissions[1].isAsync /\ permissions[1].outcome = "deny"
    /\ stages = <<"authenticate">>
    /\ throttleTask[1] = "idle"
    /\ ~HandlerActive
    /\ response = <<"response", "exception_handler", TRUE>>

\* C15: when the lower-cased method is not among http_method_names or the
\* view has no attribute of that name, dispatch raises MethodNotAllowed with
\* the method as the request spelt it, invokes no handler and hands the
\* exception to handle_exception; a method whose lower-cased name has a
\* handler is not rejected.
C15_MethodNotAllowed ==
    HandlerLookedUp =>
        /\ NoHandlerForMethod =>
              /\ raised = <<"MethodNotAllowed", method>>
              /\ handlerTask = "idle"
              /\ pc \in {"dispatch_raised", "dispatch_returned", "dispatch_reraised"}
              /\ DispatchOver => handled[1] = <<"MethodNotAllowed", method>>
        /\ ~NoHandlerForMethod =>
              (raised = None \/ raised[1] # "MethodNotAllowed")

\* PATCH on a view that has a patch attribute but does not allow the name
C15_Witness ==
    /\ pc = "dispatch_returned"
    /\ method = "PATCH"
    /\ methodNames = {"get"}
    /\ handlerKind = "async"
    /\ handlerTask = "idle"
    /\ handled[1] = <<"MethodNotAllowed", "PATCH">>

\* C16: a handler that is not a coroutine function is never invoked:
\* dispatch raises the TypeError, which goes to handle_exception.
C16_SyncHandlerTypeError ==
    (HandlerLookedUp /\ ~NoHandlerForMethod /\ handlerKind = "sync") =>
        /\ handlerTask = "idle"
        /\ raised = HandlerTypeError
        /\ pc \in {"dispatch_raised", "dispatch_returned", "dispatch_reraised"}
        /\ DispatchOver => handled[1] = HandlerTypeError

\* GET, spelt in capitals, on a view whose get is a plain function
C16_Witness ==
    /\ DispatchOver
    /\ method = "GET"
    /\ "get" \in methodNames
    /\ handlerKind = "sync"
    /\ handlerTask = "idle"
    /\ handled # None /\ handled[1] = HandlerTypeError

\* C17: a response, from the handler or from the exception handler, is
\* passed to finalize_response exactly once, and dispatch returns what
\* finalize_response returned.
C17_FinalizedOnce ==
    /\ finalizeCalls <= 1
    /\ response # None =>
           /\ finalizeCalls = 1
           /\ returned = <<"finalized", response>>
           /\ pc = "dispatch_returned"
    /\ pc = "dispatch_returned" => (response # None /\ finalizeCalls = 1)
    /\ returned # None => pc = "dispatch_returned"

\* the response made from a Throttled exception was finalized and returned
C17_Witness ==
    /\ pc = "dispatch_returned"
    /\ raised # None /\ raised[1] = "Throttled"
    /\ response = <<"response", "exception_handler", TRUE>>
    /\ returned = <<"finalized", response>>
    /\ finalizeCalls = 1

\* C18: an exception raised in initial(), in the handler lookup or in the
\* handler is handed to handle_exception; dispatch then returns a response,
\* and only when the exception handler gave none does the exception leave
\* dispatch, with nothing finalized or returned.
C18_ExceptionsTranslated ==
    /\ (DispatchOver /\ raised # None) => (handled # None /\ handled[1] = raised)
    /\ (DispatchOver /\ raised = None) => handled = None
    /\ pc = "dispatch_returned" => (reraised = None /\ returned # None)
    /\ pc = "dispatch_reraised" =>
           /\ raised # None
           /\ reraised = raised
           /\ response = None
           /\ returned = None
           /\ finalizeCalls = 0
    /\ reraised # None => pc = "dispatch_reraised"

\* the exception handler gave no response for a PermissionDenied, which
\* left dispatch
C18_Witness ==
    /\ pc = "dispatch_reraised"
    /\ raised # None /\ raised[1] = "PermissionDenied"
    /\ handled # None /\ handled[1] = raised
    /\ reraised = raised
    /\ finalizeCalls = 0

\* C19: for NotAuthenticated and AuthenticationFailed, handle_exception
\* attaches the authenticate header when there is one and keeps the status,
\* and sets the status to 403 when there is none; for any other exception
\* it touches neither.
C19_AuthenticationErrorStatus ==
    handled # None =>
        LET exc == handled[1]
            status == handled[2]
            attached == handled[3]
            header == handled[4]
        IN IF exc[1] \in {"NotAuthenticated", "AuthenticationFailed"}
           THEN IF header \in {<<"Bearer">>}
                THEN attached = header /\ status = <<"status_code", exc[1]>>
                ELSE attached = None /\ status = <<403>>
           ELSE attached = None /\ status = <<"status_code", exc[1]>>

\* an authenticator raised AuthenticationFailed and no header was available
C19_Witness ==
    /\ pc = "dispatch_returned"
    /\ handled # None
    /\ handled[1] = <<"AuthenticationFailed", 1>>
    /\ handled[4] = None
    /\ handled[2] = <<403>>
    /\ handled[3] = None

----------------------------------------------------------------------------
(* Determinism of the stages *)

\* the lowest index of an authenticator that returns a pair or raises
FirstAuthHit(i) ==
    /\ authenticators[i].outcome # "none"
    /\ \A j \in 1..(i - 1) : authenticators[j].outcome = "none"

\* what authenticate() ends in, from the list alone:
\* <<pc, raised, user, auth, _authenticator>>
AuthDecisionOf(i) ==
    CASE authenticators[i].outcome = "pair" ->
           <<"authenticate_done", None, UserOf(i), TokenOf(i), <<"authenticator", i>>>>
      [] authenticators[i].outcome = "Exception" ->
           <<"authenticate_raised", <<"Exception", i>>, None, None, None>>
      [] OTHER ->
           <<"authenticate_raised", <<authenticators[i].outcome, i>>,
             <<"AnonymousUser">>, None, None>>

\* throttle i is evaluated before throttle j
ThrottleBefore(i, j) ==
    \/ ~throttles[i].isAsync /\ throttles[j].isAsync
    \/ throttles[i].isAsync = throttles[j].isAsync /\ i < j

\* C20: what a stage ends in is determined by its list: the same list gives
\* the same winner and identity, or the same exception with the same
\* payload, in whatever order the asynchronous checks complete.
C20_Deterministic ==
    /\ AuthStageOver =>
          LET decision == <<pc, raised, user, auth, authenticator_>>
          IN IF ~AllAuthenticatorsAsync
             THEN decision = <<"authenticate_raised", AuthTypeError, None, None, None>>
             ELSE IF \A i \in AuthIdx : authenticators[i].outcome = "none"
             THEN decision = <<"authenticate_done", None, None, None, None>>
             ELSE \A i \in AuthIdx : FirstAuthHit(i) => decision = AuthDecisionOf(i)
    /\ PermStageOver =>
          IF \A i \in PermIdx : permissions[i].outcome = "grant"
          THEN pc = "check_permissions_done" /\ raised = None
          ELSE \A i \in PermIdx : FirstNonGrant(i) =>
                  (pc = "check_permissions_raised" /\ raised = PermExceptionOf(i))
    /\ ThrottleStageOver =>
          IF ~NoThrottleRaises
          THEN \A i \in ThrottleIdx :
                  (/\ throttles[i].outcome \in ThrottleRaisingOutcomes
                   /\ \A j \in ThrottleIdx \ {i} :
                         throttles[j].outcome \in ThrottleRaisingOutcomes
                            => ThrottleBefore(i, j))
                     => (pc = "check_throttles_raised" /\ raised = <<"Exception", i>>)
          ELSE IF ~SomeThrottleDenies
          THEN pc = "check_throttles_done" /\ raised = None
          ELSE /\ pc = "check_throttles_raised"
               /\ raised[1] = "Throttled"
               /\ DeniedWaits = {} => raised[2] = None
               /\ DeniedWaits # {} =>
                     (raised[2] \in DeniedWaits
                      /\ \A d \in DeniedWaits : d[1] <= raised[2][1])

\* three authenticators completed in reverse order: the first returned
\* None, the second a pair, the third raised, and the second is the winner
C20_Witness ==
    /\ pc = "authenticate_done"
    /\ Len(authenticators) = 3
    /\ authenticators[1].outcome = "none"
    /\ authenticators[2].outcome = "pair"
    /\ authenticators[3].outcome \in AuthExceptionOutcomes
    /\ authFinished = <<3, 2, 1>>
    /\ authenticator_ = <<"authenticator", 2>>

----------------------------------------------------------------------------
(* The identity of the request *)

\* C21: within one dispatch user, auth and _authenticator are written by
\* authenticate() alone and take a value at most once: a step that changes
\* any of them is the resumption of authenticate() after its gather, and it
\* finds all three None; check_permissions, check_throttles, the handler
\* lookup, handle_exception and finalize_response leave them as they are.
C21_IdentityWrittenOnlyByAuthenticate ==
    [][(<<user, auth, authenticator_>>' # <<user, auth, authenticator_>>) =>
          /\ pc = "authenticate_gather"
          /\ pc' \in {"authenticate_done", "authenticate_raised"}
          /\ user = None /\ auth = None /\ authenticator_ = None]_vars

\* the request was authenticated by its first authenticator, a permission
\* and a throttle were asked, the handler answered, and the identity is
\* still the one authenticate() recorded
C21_Witness ==
    /\ pc = "dispatch_returned"
    /\ Len(authenticators) = 1 /\ Len(permissions) = 1 /\ Len(throttles) = 1
    /\ permTask[1] = "done" /\ throttleTask[1] = "done"
    /\ handlerTask = "done"
    /\ authenticator_ = <<"authenticator", 1>>
    /\ user = UserOf(1) /\ auth = TokenOf(1)

----------------------------------------------------------------------------
(* The order of evaluation in check_permissions and check_throttles *)

\* C22: check_permissions asks the synchronous permissions one after the
\* other in list order before it starts any asynchronous permission, starts
\* the asynchronous permissions together and awaits them all; a denial it
\* reports is the first denial in the order "synchronous permissions in
\* list order, then asynchronous permissions in list order"; and when every
\* permission grants, each one has been called exactly once.
C22_SyncThenAsyncBatch ==
    /\ \A i \in PermIdx : permCalls[i] <= 1
    /\ \A i, j \in PermIdx :
          (/\ ~permissions[i].isAsync /\ ~permissions[j].isAsync
           /\ i < j /\ permCalls[j] > 0) => permCalls[i] = 1
    /\ \A i, j \in PermIdx :
          (/\ ~permissions[i].isAsync /\ permissions[j].isAsync
           /\ permCalls[j] > 0) => (permCalls[i] = 1 /\ permTask[i] = "done")
    /\ \A i, j \in PermIdx :
          (/\ permissions[i].isAsync /\ permissions[j].isAsync
           /\ permCalls[i] > 0) => permCalls[j] = 1
    /\ PermStageOver =>
          \A i \in PermIdx : permCalls[i] > 0 => permTask[i] = "done"
    /\ (pc = "check_permissions_raised" /\ raised[1] = "PermissionDenied") =>
          \E i \in PermIdx :
             /\ permissions[i].outcome = "deny"
             /\ \A j \in PermIdx \ {i} :
                   permissions[j].outcome = "deny" => EvaluatedBefore(i, j)
             /\ raised = PermExceptionOf(i)
    /\ (PermStageOver /\ \A i \in PermIdx : permissions[i].outcome = "grant") =>
          /\ pc = "check_permissions_done"
          /\ \A i \in PermIdx : permCalls[i] = 1

\* an asynchronous permission at index 1 and another at index 3 deny, the
\* synchronous one between them grants; the third completed first, and the
\* denial reported is the first one's
C22_Witness ==
    /\ pc = "check_permissions_raised"
    /\ Len(permissions) = 3
    /\ permissions[1].isAsync /\ permissions[1].outcome = "deny"
    /\ permissions[1].hasMeta
    /\ ~permissions[2].isAsync /\ permissions[2].outcome = "grant"
    /\ permissions[3].isAsync /\ permissions[3].outcome = "deny"
    /\ permissions[3].hasMeta
    /\ permFinished = <<3, 1>>
    /\ \A i \in PermIdx : permCalls[i] = 1
    /\ raised = <<"PermissionDenied", <<"message", 1>>, <<"code", 1>>>>

\* the waits of the throttles of one kind that deny, in list order
DenyingWaits(isAsync) ==
    LET idx == SelectSeq(IndexSeq(Len(throttles)),
                         LAMBDA i : /\ throttles[i].isAsync = isAsync
                                    /\ throttles[i].outcome = "deny")
    IN [k \in 1..Len(idx) |-> throttles[idx[k]].wait]

\* C23: when no throttle raises, check_throttles calls allow_request exactly
\* once on every throttle of the list, whether or not another throttle has
\* denied, and throttle_durations holds the waits of the synchronous
\* throttles that denied, in list order, followed by those of the
\* asynchronous ones.
C23_EveryThrottleAskedOnce ==
    /\ \A i \in ThrottleIdx : throttleCalls[i] <= 1
    /\ NoThrottleRaises =>
          /\ \A i, j \in ThrottleIdx :
                (/\ ~throttles[i].isAsync /\ throttles[j].isAsync
                 /\ throttleCalls[j] > 0) => throttleTask[i] = "done"
          /\ ThrottleStageOver =>
                /\ \A i \in ThrottleIdx :
                      throttleCalls[i] = 1 /\ throttleTask[i] = "done"
                /\ throttleDurations = DenyingWaits(FALSE) \o DenyingWaits(TRUE)

\* an asynchronous throttle at index 1 and a synchronous one at index 2
\* deny, the synchronous one at index 3 allows: all three were asked, and
\* the wait of the second stands before the wait of the first
C23_Witness ==
    /\ pc = "check_throttles_raised"
    /\ Len(throttles) = 3
    /\ throttles[1].isAsync /\ throttles[1].outcome = "deny"
    /\ throttles[1].wait = Duration(1)
    /\ ~throttles[2].isAsync /\ throttles[2].outcome = "deny"
    /\ throttles[2].wait = Duration(2)
    /\ ~throttles[3].isAsync /\ throttles[3].outcome = "allow"
    /\ \A i \in ThrottleIdx : throttleCalls[i] = 1
    /\ throttleDurations = <<Duration(2), Duration(1)>>

\* C24: wait() is called on a throttle only after its allow_request has
\* returned a falsy value, and then exactly once: never on a throttle that
\* allowed the request, whose allow_request raised, or that was not asked.
C24_WaitOnlyAfterDenial ==
    \A i \in ThrottleIdx :
       /\ throttleWaits[i] <= 1
       /\ throttleWaits[i] = 1 <=>
             (/\ throttleTask[i] = "done"
              /\ throttles[i].outcome \in {"deny", "wait_raises"})
       /\ (throttles[i].outcome \in {"allow", "raise"} \/ throttleCalls[i] = 0)
             => throttleWaits[i] = 0

\* of three throttles the first, asynchronous, allowed, the second,
\* synchronous, denied and the third, asynchronous, denied: wait was called
\* once on the second and on the third and never on the first
C24_Witness ==
    /\ pc = "check_throttles_raised"
    /\ Len(throttles) = 3
    /\ throttles[1].isAsync /\ throttles[1].outcome = "allow"
    /\ ~throttles[2].isAsync /\ throttles[2].outcome = "deny"
    /\ throttles[3].isAsync /\ throttles[3].outcome = "deny"
    /\ throttleCalls = <<1, 1, 1>>
    /\ throttleWaits = <<0, 1, 1>>

\* C25: a synchronous permission that denies or raises ends
\* check_permissions at once: no synchronous permission after it in the list
\* and no asynchronous permission, wherever it stands in the list, is ever
\* called.  Once the asynchronous permissions are started, nothing is raised
\* before every one of them has completed.
C25_SyncFailureAbortsAsyncBatchCompletes ==
    /\ \A i \in PermIdx :
          (~permissions[i].isAsync /\ permissions[i].outcome # "grant") =>
             /\ \A j \in PermIdx :
                   EvaluatedBefore(i, j) =>
                      (permCalls[j] = 0 /\ permTask[j] = "idle")
             /\ permCalls[i] > 0 =>
                   (pc = "check_permissions_raised" /\ raised = PermExceptionOf(i))
    /\ (\E i \in PermIdx : permissions[i].isAsync /\ permCalls[i] > 0) =>
          /\ pc = "check_permissions_gather" => raised = None
          /\ pc # "check_permissions_gather" =>
                \A j \in PermIdx : permissions[j].isAsync => permTask[j] = "done"

\* the asynchronous permission at index 1 was never started, because the
\* synchronous one at index 2 denied; the synchronous one at index 3 was
\* not asked either
C25_Witness ==
    /\ pc = "check_permissions_raised"
    /\ Len(permissions) = 3
    /\ permissions[1].isAsync /\ permissions[1].outcome = "grant"
    /\ ~permissions[2].isAsync /\ permissions[2].outcome = "deny"
    /\ ~permissions[3].isAsync /\ permissions[3].outcome = "grant"
    /\ permCalls = <<0, 1, 0>>
    /\ permTask = <<"idle", "done", "idle">>
    /\ raised[1] = "PermissionDenied"

\* C26: when the allow_request or the wait of a throttle raises,
\* check_throttles ends with that exception and not with Throttled, even if
\* a throttle asked before it denied; no throttle after it in the order
\* "synchronous throttles in list order, then asynchronous throttles in list
\* order" is asked.
C26_ThrottleExceptionPropagates ==
    /\ \A i \in ThrottleIdx :
          (/\ throttles[i].outcome \in {"raise", "wait_raises"}
           /\ throttleTask[i] = "done") =>
             /\ pc = "check_throttles_raised"
             /\ raised = <<"Exception", i>>
             /\ \A j \in ThrottleIdx :
                   ThrottleBefore(i, j) =>
                      /\ throttleCalls[j] = 0
                      /\ throttleWaits[j] = 0
                      /\ throttleTask[j] = "idle"
    /\ (ThrottleStageOver /\ ~NoThrottleRaises) =>
          (pc = "check_throttles_raised" /\ raised[1] = "Exception")

\* a synchronous throttle denied, then the wait of the asynchronous throttle
\* at index 2 raised: that exception is raised, the wait collected before it
\* is dropped, and the asynchronous throttle at index 3 was not asked
C26_Witness ==
    /\ pc = "check_throttles_raised"
    /\ Len(throttles) = 3
    /\ ~throttles[1].isAsync /\ throttles[1].outcome = "deny"
    /\ throttles[2].isAsync /\ throttles[2].outcome = "wait_raises"
    /\ throttles[3].isAsync /\ throttles[3].outcome = "deny"
    /\ throttleDurations = <<throttles[1].wait>>
    /\ throttleCalls = <<1, 1, 0>>
    /\ throttleWaits = <<1, 1, 0>>
    /\ raised = <<"Exception", 2>>

----------------------------------------------------------------------------
(* Failure of authenticate() *)

\* C27: when authenticate() ends by raising, with the TypeError for a
\* synchronous authenticator, an API exception or any other exception,
\* _authenticator is None and user and auth are not what any authenticator
\* returned nor what an earlier call recorded, even if an authenticator at
\* a higher index returned a pair; every call starts by setting the three
\* fields to None.
C27_FailureLeavesNoIdentity ==
    /\ pc = "authenticate_gather" =>
          (user = None /\ auth = None /\ authenticator_ = None)
    /\ pc = "authenticate_raised" =>
          /\ authenticator_ = None
          /\ auth = None
          /\ user \in {None, <<"AnonymousUser">>}
          /\ \A i \in 0..Len(authenticators) :
                user # UserOf(i) /\ auth # TokenOf(i)
          /\ user = <<"AnonymousUser">> <=>
                raised[1] \in {"AuthenticationFailed", "NotAuthenticated"}

\* the first authenticator raised an exception that is not an API
\* exception, the second one had completed before it and returned a pair:
\* authenticate() raised and the request carries no identity
C27_Witness ==
    /\ pc = "authenticate_raised"
    /\ Len(authenticators) = 2
    /\ AllAuthenticatorsAsync
    /\ authenticators[1].outcome = "Exception"
    /\ authenticators[2].outcome = "pair"
    /\ authFinished = <<2, 1>>
    /\ authResults[2] = <<"pair", UserOf(2), TokenOf(2)>>
    /\ raised = <<"Exception", 1>>
    /\ user = None /\ auth = None /\ authenticator_ = None

====
